---- MODULE Spec2Model ----
(***************************************************************************)
(* A model of src/disbin.py: FileComparisonTool (load_file_content,        *)
(* generate_diff_html) and the two comparison flows of main().             *)
(*                                                                         *)
(* Representation.                                                         *)
(*   - a character is a one-character string; a str is a sequence of       *)
(*     characters; a line list is a sequence of strs;                      *)
(*   - Python indices are kept 0-based: At(s, i) is s[i], Slice(s, lo, hi) *)
(*     is s[lo:hi];                                                        *)
(*   - generate_diff_html calls difflib.ndiff (Python 3.11 standard        *)
(*     library).  The library is modelled by what it computes:             *)
(*     SequenceMatcher.find_longest_match / get_matching_blocks /          *)
(*     get_opcodes / ratio and Differ.compare / _fancy_replace / _qformat. *)
(*     SequenceMatcher's "autojunk" heuristic only acts on sequences of    *)
(*     200 or more elements, which are outside the bounds of this model.   *)
(***************************************************************************)
EXTENDS Integers, Sequences, FiniteSets, TLC

(***************************************************************************)
(* Bounds of the model                                                     *)
(***************************************************************************)
\* most lines in one side of a direct generate_diff_html comparison
MaxLines == 3

\* most bytes of an uploaded file (besides the oversize files)
MaxFileLen == 2

\* most explicit bytes of a file given to a direct load_file_content call
MaxLoadLen == 3

\* most calls made on one tool
MaxCalls == 3

(***************************************************************************)
(* State                                                                   *)
(***************************************************************************)
VARIABLES
    config,         \* tool.config
    input_method,   \* st.radio: "Upload Files" | "Paste Text" | "" (direct call)
    uploaded_files, \* st.file_uploader
    text1, text2,   \* st.text_area
    clicked,        \* st.button("Compare")
    file,           \* the argument of a direct load_file_content call
    loaded1, loaded2, \* (content, error) returned by load_file_content
    file1_data, file2_data,   \* the arguments of generate_diff_html
    file1_lines, file2_lines, \* its locals ...
    line_diff,
    line_num1, line_num2,
    html_content,   \* ... and the value it returned (<<>>: not called)
    messages,       \* st.error / st.warning / st.success, in order
    diff_html,      \* Some(what components.html rendered), or None
    calls,          \* number of calls made on the tool
    fresh_html,     \* per argument pair, what a call on a new tool returned
    pc

vars == <<config, input_method, uploaded_files, text1, text2, clicked, file,
          loaded1, loaded2, file1_data, file2_data, file1_lines, file2_lines,
          line_diff, line_num1, line_num2, html_content, messages, diff_html,
          calls, fresh_html, pc>>

(***************************************************************************)
(* Python helpers                                                          *)
(***************************************************************************)
\* Optional[T]: None, or Some(v); v = Value(opt)
None == <<>>
Some(v) == <<v>>
Value(opt) == opt[1]

\* "no index yet" (eqi, eqj = None, None)
NoIndex == 0 - 1

At(s, i) == s[i + 1]

Slice(s, lo, hi) == IF hi <= lo THEN <<>> ELSE SubSeq(s, lo + 1, hi)

Min(x, y) == IF x < y THEN x ELSE y

\* c * n for a one-character string c
Repeat(c, n) == [k \in 1..n |-> c]

\* str.isspace for one character (the ASCII white space characters)
isspace(c) == c \in {" ", "\t", "\n", "\r"}

RECURSIVE rstrip(_)
rstrip(s) ==
    IF Len(s) > 0 /\ isspace(s[Len(s)]) THEN rstrip(SubSeq(s, 1, Len(s) - 1)) ELSE s

(***************************************************************************)
(* str.splitlines(): the text is cut at every line break; the breaks are   *)
(* not kept, and a text that ends with a break has no empty last line.     *)
(***************************************************************************)
IsLineBreak(c) == c \in {"\n", "\r"}

RECURSIVE splitlines_from(_, _, _, _)
splitlines_from(s, i, cur, acc) ==
    IF i >= Len(s) THEN (IF cur = <<>> THEN acc ELSE Append(acc, cur))
    ELSE IF IsLineBreak(At(s, i))
         THEN LET j == IF At(s, i) = "\r" /\ i + 1 < Len(s) /\ At(s, i + 1) = "\n"
                       THEN i + 2 ELSE i + 1
              IN  IF j >= Len(s) THEN Append(acc, cur)
                  ELSE splitlines_from(s, j, <<>>, Append(acc, cur))
         ELSE splitlines_from(s, i + 1, Append(cur, At(s, i)), acc)

splitlines(s) == splitlines_from(s, 0, <<>>, <<>>)

(***************************************************************************)
(* difflib.SequenceMatcher(isjunk, a, b)                                   *)
(***************************************************************************)
\* Differ(linejunk=None): no line is junk.  charjunk=IS_CHARACTER_JUNK.
NoJunk == {}
IS_CHARACTER_JUNK == {" ", "\t"}

\* find_longest_match's table entry j2len[j] while row i is scanned: the length
\* of the longest run of equal elements, none of them junk, that ends with
\* a[i], b[j] and lies within a[alo:], b[blo:].  (Junk elements of b are not
\* in b2j, so a run never holds one.)
RECURSIVE j2len(_, _, _, _, _, _, _)
j2len(a, b, junk, alo, blo, i, j) ==
    IF i < alo \/ j < blo THEN 0
    ELSE IF At(a, i) # At(b, j) \/ At(b, j) \in junk THEN 0
    ELSE j2len(a, b, junk, alo, blo, i - 1, j - 1) + 1

\* The loops "for i in range(alo, ahi): for j in b2j[a[i]]" replace the best
\* block only by a strictly longer one ("if k > bestsize"), so they end with
\* the longest run, and among the longest runs with the one met first: the
\* least i, then the least j.  kmax is the length of the longest run.
flm_kmax(a, b, junk, alo, ahi, blo, bhi) ==
    LET K == {j2len(a, b, junk, alo, blo, i, j) : i \in alo..(ahi - 1), j \in blo..(bhi - 1)}
    IN  IF K = {} THEN 0 ELSE CHOOSE k \in K : \A l \in K : l <= k

flm_first_i(a, b, junk, alo, ahi, blo, bhi, kmax) ==
    CHOOSE i \in alo..(ahi - 1) :
        /\ \E j \in blo..(bhi - 1) : j2len(a, b, junk, alo, blo, i, j) = kmax
        /\ \A h \in alo..(i - 1) :
               \A j \in blo..(bhi - 1) : j2len(a, b, junk, alo, blo, h, j) # kmax

flm_first_j(a, b, junk, alo, blo, bhi, kmax, i) ==
    CHOOSE j \in blo..(bhi - 1) :
        /\ j2len(a, b, junk, alo, blo, i, j) = kmax
        /\ \A h \in blo..(j - 1) : j2len(a, b, junk, alo, blo, i, h) # kmax

flm_block(i, j, k) == <<i - k + 1, j - k + 1, k>>

flm_best(a, b, junk, alo, ahi, blo, bhi, kmax) ==
    IF kmax = 0 THEN <<alo, blo, 0>>
    ELSE flm_block(flm_first_i(a, b, junk, alo, ahi, blo, bhi, kmax),
                   flm_first_j(a, b, junk, alo, blo, bhi, kmax,
                       flm_first_i(a, b, junk, alo, ahi, blo, bhi, kmax)),
                   kmax)

flm_scan(a, b, junk, alo, ahi, blo, bhi) ==
    flm_best(a, b, junk, alo, ahi, blo, bhi, flm_kmax(a, b, junk, alo, ahi, blo, bhi))

\* the four "while" loops that extend the best block: first by matching
\* non-junk elements (wantjunk = FALSE), then by matching junk elements
RECURSIVE flm_extend_left(_, _, _, _, _, _, _)
flm_extend_left(a, b, junk, alo, blo, wantjunk, m) ==
    IF m[1] > alo /\ m[2] > blo
       /\ ((At(b, m[2] - 1) \in junk) = wantjunk)
       /\ At(a, m[1] - 1) = At(b, m[2] - 1)
    THEN flm_extend_left(a, b, junk, alo, blo, wantjunk, <<m[1] - 1, m[2] - 1, m[3] + 1>>)
    ELSE m

RECURSIVE flm_extend_right(_, _, _, _, _, _, _)
flm_extend_right(a, b, junk, ahi, bhi, wantjunk, m) ==
    IF m[1] + m[3] < ahi /\ m[2] + m[3] < bhi
       /\ ((At(b, m[2] + m[3]) \in junk) = wantjunk)
       /\ At(a, m[1] + m[3]) = At(b, m[2] + m[3])
    THEN flm_extend_right(a, b, junk, ahi, bhi, wantjunk, <<m[1], m[2], m[3] + 1>>)
    ELSE m

find_longest_match(a, b, junk, alo, ahi, blo, bhi) ==
    flm_extend_right(a, b, junk, ahi, bhi, TRUE,
        flm_extend_left(a, b, junk, alo, blo, TRUE,
            flm_extend_right(a, b, junk, ahi, bhi, FALSE,
                flm_extend_left(a, b, junk, alo, blo, FALSE,
                    flm_scan(a, b, junk, alo, ahi, blo, bhi)))))

\* the pieces left and right of the match x of the range q, pushed on the
\* work list
gmb_push(rest, q, x) ==
    (IF q[1] < x[1] /\ q[3] < x[2] THEN Append(rest, <<q[1], x[1], q[3], x[2]>>) ELSE rest)
    \o (IF x[1] + x[3] < q[2] /\ x[2] + x[3] < q[4]
        THEN << <<x[1] + x[3], q[2], x[2] + x[3], q[4]>> >> ELSE <<>>)

\* the work list of get_matching_blocks: the last entry q is popped and its
\* longest match x, if there is one, recorded
RECURSIVE gmb_queue(_, _, _, _, _)
gmb_found(a, b, junk, rest, q, x, matching_blocks) ==
    IF x[3] # 0
    THEN gmb_queue(a, b, junk, gmb_push(rest, q, x), Append(matching_blocks, x))
    ELSE gmb_queue(a, b, junk, rest, matching_blocks)

gmb_pop(a, b, junk, rest, q, matching_blocks) ==
    gmb_found(a, b, junk, rest, q,
        find_longest_match(a, b, junk, q[1], q[2], q[3], q[4]), matching_blocks)

gmb_queue(a, b, junk, queue, matching_blocks) ==
    IF queue = <<>> THEN matching_blocks
    ELSE gmb_pop(a, b, junk, SubSeq(queue, 1, Len(queue) - 1), queue[Len(queue)],
             matching_blocks)

\* tuple order of (i, j, n) triples, as list.sort() uses it
TripleLess(x, y) ==
    \/ x[1] < y[1]
    \/ x[1] = y[1] /\ x[2] < y[2]
    \/ x[1] = y[1] /\ x[2] = y[2] /\ x[3] < y[3]

RECURSIVE sort_insert(_, _)
sort_insert(sorted, x) ==
    IF sorted = <<>> THEN <<x>>
    ELSE IF TripleLess(x, sorted[1]) THEN <<x>> \o sorted
    ELSE <<sorted[1]>> \o sort_insert(Tail(sorted), x)

RECURSIVE sort_blocks(_)
sort_blocks(blocks) ==
    IF blocks = <<>> THEN <<>>
    ELSE sort_insert(sort_blocks(SubSeq(blocks, 1, Len(blocks) - 1)), blocks[Len(blocks)])

\* adjacent equal blocks are collapsed into one
RECURSIVE gmb_collapse(_, _, _, _)
gmb_collapse(blocks, n, cur, non_adjacent) ==
    IF n > Len(blocks)
    THEN (IF cur[3] # 0 THEN Append(non_adjacent, cur) ELSE non_adjacent)
    ELSE LET x == blocks[n]
         IN  IF cur[1] + cur[3] = x[1] /\ cur[2] + cur[3] = x[2]
             THEN gmb_collapse(blocks, n + 1, <<cur[1], cur[2], cur[3] + x[3]>>, non_adjacent)
             ELSE gmb_collapse(blocks, n + 1, x,
                      IF cur[3] # 0 THEN Append(non_adjacent, cur) ELSE non_adjacent)

get_matching_blocks(a, b, junk) ==
    Append(gmb_collapse(sort_blocks(gmb_queue(a, b, junk, << <<0, Len(a), 0, Len(b)>> >>, <<>>)),
                        1, <<0, 0, 0>>, <<>>),
           <<Len(a), Len(b), 0>>)

\* get_opcodes: the gaps between matching blocks become replace / delete /
\* insert, the blocks themselves equal.  An opcode is [tag, i1, i2, j1, j2].
Opcode(tag, i1, i2, j1, j2) == [tag |-> tag, i1 |-> i1, i2 |-> i2, j1 |-> j1, j2 |-> j2]

RECURSIVE opcodes_from(_, _, _, _, _)
opcodes_from(blocks, n, i, j, answer) ==
    IF n > Len(blocks) THEN answer
    ELSE LET ai   == blocks[n][1]
             bj   == blocks[n][2]
             size == blocks[n][3]
             tag  == IF i < ai /\ j < bj THEN "replace"
                     ELSE IF i < ai THEN "delete"
                     ELSE IF j < bj THEN "insert"
                     ELSE ""
             ans1 == IF tag # "" THEN Append(answer, Opcode(tag, i, ai, j, bj)) ELSE answer
             ans2 == IF size # 0
                     THEN Append(ans1, Opcode("equal", ai, ai + size, bj, bj + size))
                     ELSE ans1
         IN  opcodes_from(blocks, n + 1, ai + size, bj + size, ans2)

get_opcodes(a, b, junk) == opcodes_from(get_matching_blocks(a, b, junk), 1, 0, 0, <<>>)

(***************************************************************************)
(* The similarity ratios.  A ratio 2.0 * matches / length is kept as the   *)
(* fraction <<numerator, denominator>> and compared by cross               *)
(* multiplication; for the small integers of this model the float          *)
(* comparison of the code orders the values the same way.                  *)
(***************************************************************************)
calculate_ratio(matches, length) == IF length # 0 THEN <<2 * matches, length>> ELSE <<1, 1>>

RatioGreater(x, y) == x[1] * y[2] > y[1] * x[2]

RatioLess(x, y) == x[1] * y[2] < y[1] * x[2]

RECURSIVE sum_sizes(_)
sum_sizes(blocks) == IF blocks = <<>> THEN 0 ELSE blocks[1][3] + sum_sizes(Tail(blocks))

ratio(a, b, junk) == calculate_ratio(sum_sizes(get_matching_blocks(a, b, junk)), Len(a) + Len(b))

\* elements of a also available in b, counted with multiplicity
Count(s, e) == Cardinality({k \in 1..Len(s) : s[k] = e})

RECURSIVE sum_over(_, _, _)
sum_over(S, a, b) ==
    IF S = {} THEN 0
    ELSE LET e == CHOOSE x \in S : TRUE
         IN  Min(Count(a, e), Count(b, e)) + sum_over(S \ {e}, a, b)

quick_ratio(a, b) ==
    calculate_ratio(sum_over({a[k] : k \in 1..Len(a)}, a, b), Len(a) + Len(b))

real_quick_ratio(a, b) == calculate_ratio(Min(Len(a), Len(b)), Len(a) + Len(b))

(***************************************************************************)
(* difflib.Differ(linejunk=None, charjunk=IS_CHARACTER_JUNK).compare, which*)
(* is what difflib.ndiff returns.  A delta line is a str: a two-character  *)
(* tag ("  ", "- ", "+ " or "? ") followed by the line.                    *)
(***************************************************************************)
\* _dump: '%s %s' % (tag, x[i]) for i in range(lo, hi)
dump(tag, x, lo, hi) == [k \in 1..(IF hi > lo THEN hi - lo ELSE 0) |-> <<tag, " ">> \o At(x, lo + k - 1)]

\* _plain_replace: the shorter block is dumped first
plain_replace(a, alo, ahi, b, blo, bhi) ==
    IF bhi - blo < ahi - alo
    THEN dump("+", b, blo, bhi) \o dump("-", a, alo, ahi)
    ELSE dump("-", a, alo, ahi) \o dump("+", b, blo, bhi)

\* _keep_original_ws(s, tag_s)
keep_original_ws(s, tag_s) ==
    [k \in 1..Min(Len(s), Len(tag_s)) |->
        IF tag_s[k] = " " /\ isspace(s[k]) THEN s[k] ELSE tag_s[k]]

\* _qformat: the "- " and "+ " lines, each followed by its "? " guide line
\* when the guide is not blank
qformat(aline, bline, atags, btags) ==
    LET at == rstrip(keep_original_ws(aline, atags))
        bt == rstrip(keep_original_ws(bline, btags))
    IN  << <<"-", " ">> \o aline >>
        \o (IF at # <<>> THEN << <<"?", " ">> \o at \o <<"\n">> >> ELSE <<>>)
        \o << <<"+", " ">> \o bline >>
        \o (IF bt # <<>> THEN << <<"?", " ">> \o bt \o <<"\n">> >> ELSE <<>>)

\* the guide marks of a synched pair, from the character opcodes
RECURSIVE intraline_tags(_, _, _, _)
intraline_tags(ops, n, atags, btags) ==
    IF n > Len(ops) THEN <<atags, btags>>
    ELSE LET op == ops[n]
             la == op.i2 - op.i1
             lb == op.j2 - op.j1
         IN  IF op.tag = "replace"
             THEN intraline_tags(ops, n + 1, atags \o Repeat("^", la), btags \o Repeat("^", lb))
             ELSE IF op.tag = "delete"
             THEN intraline_tags(ops, n + 1, atags \o Repeat("-", la), btags)
             ELSE IF op.tag = "insert"
             THEN intraline_tags(ops, n + 1, atags, btags \o Repeat("+", lb))
             ELSE intraline_tags(ops, n + 1, atags \o Repeat(" ", la), btags \o Repeat(" ", lb))

\* best_ratio, cutoff = 0.74, 0.75
BestRatioStart == <<74, 100>>
Cutoff == <<75, 100>>

\* "for j in range(blo, bhi): for i in range(alo, ahi)": the pairs <<j, i>>
\* in the order the search visits them
Pairs(alo, ahi, blo, bhi) == (blo..(bhi - 1)) \X (alo..(ahi - 1))

FirstPair(S) ==
    CHOOSE p \in S : \A q \in S : p[1] < q[1] \/ (p[1] = q[1] /\ p[2] <= q[2])

line_ratio(a, b, p) == ratio(At(a, p[2]), At(b, p[1]), IS_CHARACTER_JUNK)

\* the pairs of different lines that pass the three tests
\* real_quick_ratio() > best_ratio, quick_ratio() > best_ratio and
\* ratio() > best_ratio against the starting best_ratio
fancy_candidates(a, alo, ahi, b, blo, bhi) ==
    {p \in Pairs(alo, ahi, blo, bhi) :
        /\ At(a, p[2]) # At(b, p[1])
        /\ RatioGreater(real_quick_ratio(At(a, p[2]), At(b, p[1])), BestRatioStart)
        /\ RatioGreater(quick_ratio(At(a, p[2]), At(b, p[1])), BestRatioStart)
        /\ RatioGreater(line_ratio(a, b, p), BestRatioStart)}

\* the pairs of identical lines
fancy_identical(a, alo, ahi, b, blo, bhi) ==
    {p \in Pairs(alo, ahi, blo, bhi) : At(a, p[2]) = At(b, p[1])}

\* the greatest of a set of ratios
RatioMax(R) == CHOOSE x \in R : \A y \in R : ~RatioGreater(y, x)

\* The search replaces the best pair only by a strictly more similar one
\* ("ratio() > best_ratio"; the two quick ratios are upper bounds of ratio()),
\* so it ends with the most similar candidate, and among equally similar ones
\* with the one visited first.
fancy_best(a, b, C, rmax) ==
    FirstPair({p \in C : ~RatioGreater(rmax, line_ratio(a, b, p))})

fancy_state(best_ratio, best, eq) ==
    [best_ratio |-> best_ratio, best_i |-> best[2], best_j |-> best[1],
     eqi |-> eq[2], eqj |-> eq[1]]

fancy_result(a, b, C, E) ==
    fancy_state(IF C = {} THEN BestRatioStart ELSE RatioMax({line_ratio(a, b, p) : p \in C}),
                IF C = {} THEN <<NoIndex, NoIndex>>
                ELSE fancy_best(a, b, C, RatioMax({line_ratio(a, b, p) : p \in C})),
                IF E = {} THEN <<NoIndex, NoIndex>> ELSE FirstPair(E))

\* the state of _fancy_replace after its search: best_ratio, best_i, best_j
\* and the first pair of identical lines eqi, eqj (NoIndex: none)
fancy_search(a, alo, ahi, b, blo, bhi) ==
    fancy_result(a, b, fancy_candidates(a, alo, ahi, b, blo, bhi),
                 fancy_identical(a, alo, ahi, b, blo, bhi))

\* the '-', '?', '+', '?' quad of a synched pair of different lines
fancy_quad(aelt, belt, tags) == qformat(aelt, belt, tags[1], tags[2])

RECURSIVE fancy_replace(_, _, _, _, _, _)
RECURSIVE fancy_helper(_, _, _, _, _, _)

\* the diffs before the synch point, the synched pair, the diffs after it
fancy_synch(a, alo, ahi, b, blo, bhi, best_i, best_j, identical) ==
    fancy_helper(a, alo, best_i, b, blo, best_j)
    \o (IF identical THEN << <<" ", " ">> \o At(a, best_i) >>
        ELSE fancy_quad(At(a, best_i), At(b, best_j),
                 intraline_tags(get_opcodes(At(a, best_i), At(b, best_j), IS_CHARACTER_JUNK),
                                1, <<>>, <<>>)))
    \o fancy_helper(a, best_i + 1, ahi, b, best_j + 1, bhi)

\* what _fancy_replace does with the result st of its search
fancy_found(a, alo, ahi, b, blo, bhi, st) ==
    IF RatioLess(st.best_ratio, Cutoff) /\ st.eqi = NoIndex
    THEN plain_replace(a, alo, ahi, b, blo, bhi)
    ELSE fancy_synch(a, alo, ahi, b, blo, bhi,
             IF RatioLess(st.best_ratio, Cutoff) THEN st.eqi ELSE st.best_i,
             IF RatioLess(st.best_ratio, Cutoff) THEN st.eqj ELSE st.best_j,
             RatioLess(st.best_ratio, Cutoff))

fancy_replace(a, alo, ahi, b, blo, bhi) ==
    fancy_found(a, alo, ahi, b, blo, bhi,
        fancy_search(a, alo, ahi, b, blo, bhi))

fancy_helper(a, alo, ahi, b, blo, bhi) ==
    IF alo < ahi
    THEN (IF blo < bhi THEN fancy_replace(a, alo, ahi, b, blo, bhi)
          ELSE dump("-", a, alo, ahi))
    ELSE IF blo < bhi THEN dump("+", b, blo, bhi)
    ELSE <<>>

\* the delta lines of one opcode of the line comparison
compare_op(a, b, op) ==
    IF op.tag = "replace" THEN fancy_replace(a, op.i1, op.i2, b, op.j1, op.j2)
    ELSE IF op.tag = "delete" THEN dump("-", a, op.i1, op.i2)
    ELSE IF op.tag = "insert" THEN dump("+", b, op.j1, op.j2)
    ELSE dump(" ", a, op.i1, op.i2)

RECURSIVE compare_from(_, _, _, _)
compare_from(a, b, ops, n) ==
    IF n > Len(ops) THEN <<>>
    ELSE compare_op(a, b, ops[n]) \o compare_from(a, b, ops, n + 1)

compare(a, b) == compare_from(a, b, get_opcodes(a, b, NoJunk), 1)

ndiff(a, b) == compare(a, b)

(***************************************************************************)
(* FileComparisonTool.generate_diff_html                                   *)
(*                                                                         *)
(* html_content is modelled as the sequence of the pieces appended to it:  *)
(* the head (style sheet, table opening and header row), one piece per     *)
(* <tr> and the closing tail.  A <tr> keeps the text of its four cells and *)
(* the class of its two content cells; an empty cell has the text <<>>.    *)
(***************************************************************************)
\* str(n) for n >= 0, as the f-string {line_num1} formats it
Digit(d) == CASE d = 0 -> "0" [] d = 1 -> "1" [] d = 2 -> "2" [] d = 3 -> "3"
              [] d = 4 -> "4" [] d = 5 -> "5" [] d = 6 -> "6" [] d = 7 -> "7"
              [] d = 8 -> "8" [] d = 9 -> "9"

RECURSIVE str(_)
str(n) == IF n < 10 THEN <<Digit(n)>> ELSE Append(str(n \div 10), Digit(n % 10))

HtmlHead == [kind |-> "head"]
HtmlTail == [kind |-> "tail"]

Tr(num1, class1, text1_, num2, class2, text2_) ==
    [kind |-> "tr", num1 |-> num1, class1 |-> class1, text1 |-> text1_,
     num2 |-> num2, class2 |-> class2, text2 |-> text2_]

\* a faulty unchanged row that leaves the right cell empty
UnchangedRowBlankRight(content, n1, n2) == Tr(str(n1), "", content, str(n2), "", <<>>)

\* the <tr> appended for an unchanged line ("  ")
UnchangedRow(content, n1, n2) == Tr(str(n1), "", content, str(n2), "", content)

\* a faulty removed row numbered with the right-hand counter
RemovedRowRightCounter(content, n1, n2) == Tr(str(n2), "removed", content, <<>>, "", <<>>)

\* the <tr> appended for a removed line ("- ")
RemovedRow(content, n1, n2) == Tr(str(n1), "removed", content, <<>>, "", <<>>)

\* a faulty added row that fills the left side as well
AddedRowBoth(content, n1, n2) == Tr(str(n1), "", content, str(n2), "added", content)

\* the <tr> appended for an added line ("+ ")
AddedRow(content, n1, n2) == Tr(<<>>, "", <<>>, str(n2), "added", content)

\* faulty counters kept on the tool: a call goes on from where the call
\* before it stopped
StaleLineNum == IF line_num1 = 0 THEN 1 ELSE line_num1

\* line_num1, line_num2 = 1, 1
LineNumStart == 1

\* one pass of "for line in line_diff": st holds html_content, line_num1 and
\* line_num2; a line with any other tag (the "? " guide lines) appends nothing
diff_step(tag, content, st) ==
    IF tag = <<" ", " ">>
    THEN [html_content |-> Append(st.html_content,
                               UnchangedRow(content, st.line_num1, st.line_num2)),
          line_num1 |-> st.line_num1 + 1,
          line_num2 |-> st.line_num2 + 1]
    ELSE IF tag = <<"-", " ">>
    THEN [html_content |-> Append(st.html_content,
                               RemovedRow(content, st.line_num1, st.line_num2)),
          line_num1 |-> st.line_num1 + 1,
          line_num2 |-> st.line_num2]
    ELSE IF tag = <<"+", " ">>
    THEN [html_content |-> Append(st.html_content,
                               AddedRow(content, st.line_num1, st.line_num2)),
          line_num1 |-> st.line_num1,
          line_num2 |-> st.line_num2 + 1]
    ELSE st

\* tag = line[:2]; content = line[2:]
RECURSIVE diff_loop(_, _, _)
diff_loop(delta, n, st) ==
    IF n > Len(delta) THEN st
    ELSE diff_loop(delta, n + 1,
             diff_step(Slice(delta[n], 0, 2),
                       Slice(delta[n], 2, Len(delta[n])), st))

\* the locals after the loop and the value returned
diff_result(lines1, lines2, diff, st) ==
    [file1_lines  |-> lines1,
     file2_lines  |-> lines2,
     line_diff    |-> diff,
     line_num1    |-> st.line_num1,
     line_num2    |-> st.line_num2,
     html_content |-> Append(st.html_content, HtmlTail)]

diff_render(lines1, lines2, diff) ==
    diff_result(lines1, lines2, diff,
        diff_loop(diff, 1,
            [html_content |-> <<HtmlHead>>,
             line_num1 |-> LineNumStart, line_num2 |-> LineNumStart]))

diff_lines(lines1, lines2) == diff_render(lines1, lines2, ndiff(lines1, lines2))

\* the whole method
generate_diff_html(data1, data2) == diff_lines(splitlines(data1), splitlines(data2))

(***************************************************************************)
(* FileComparisonTool.load_file_content                                    *)
(*                                                                         *)
(* file.getvalue() is modelled as [data, pad]: the bytes data followed by  *)
(* pad filler bytes "a" (0x61), so that a file of 10 MB is a value TLC can *)
(* hold.  The decoded text of such a file is the decoded data followed by  *)
(* one Filler(pad) element that stands for the pad characters.             *)
(***************************************************************************)
MAX_FILE_SIZE_MB == 10

BytesLen(bytes) == Len(bytes.data) + bytes.pad

Filler(n) == [fill |-> "a", n |-> n]

\* the characters of the code points the model's bytes can encode
chr(cp) == CASE cp = 10 -> "\n" [] cp = 97 -> "a" [] cp = 98 -> "b" [] cp = 233 -> "e'"

IsContinuation(b) == 128 <= b /\ b <= 191

\* bytes.decode("utf-8"): [ok, text]; ok is FALSE where the codec raises
\* UnicodeDecodeError (a stray or missing continuation byte, an overlong or
\* surrogate encoding, a lead byte above 0xF4)
RECURSIVE utf8_decode(_, _, _)
utf8_decode(data, i, acc) ==
    IF i >= Len(data) THEN [ok |-> TRUE, text |-> acc]
    ELSE LET b0 == At(data, i)
             has(k) == i + k < Len(data) /\ IsContinuation(At(data, i + k))
             c(k) == At(data, i + k) - 128
         IN  IF b0 < 128
             THEN utf8_decode(data, i + 1, Append(acc, chr(b0)))
             ELSE IF 194 <= b0 /\ b0 <= 223
             THEN (IF has(1)
                   THEN utf8_decode(data, i + 2, Append(acc, chr((b0 - 192) * 64 + c(1))))
                   ELSE [ok |-> FALSE, text |-> <<>>])
             ELSE IF 224 <= b0 /\ b0 <= 239
             THEN (IF /\ has(1) /\ has(2)
                      /\ (b0 = 224 => At(data, i + 1) >= 160)
                      /\ (b0 = 237 => At(data, i + 1) <= 159)
                   THEN utf8_decode(data, i + 3,
                            Append(acc, chr((b0 - 224) * 4096 + c(1) * 64 + c(2))))
                   ELSE [ok |-> FALSE, text |-> <<>>])
             ELSE IF 240 <= b0 /\ b0 <= 244
             THEN (IF /\ has(1) /\ has(2) /\ has(3)
                      /\ (b0 = 240 => At(data, i + 1) >= 144)
                      /\ (b0 = 244 => At(data, i + 1) <= 143)
                   THEN utf8_decode(data, i + 4,
                            Append(acc, chr((b0 - 240) * 262144 + c(1) * 4096 + c(2) * 64 + c(3))))
                   ELSE [ok |-> FALSE, text |-> <<>>])
             ELSE [ok |-> FALSE, text |-> <<>>]

decode(bytes) ==
    LET d == utf8_decode(bytes.data, 0, <<>>)
    IN  IF ~d.ok THEN d
        ELSE [ok |-> TRUE,
              text |-> IF bytes.pad = 0 THEN d.text ELSE Append(d.text, Filler(bytes.pad))]

SizeLimitError == "File size exceeds 10MB limit"
DecodeError == "File appears to be binary or contains invalid characters"

\* a faulty size test that rejects a file of exactly the limit
ExceedsLimitInclusive(size) == size >= MAX_FILE_SIZE_MB * (1024 * 1024)

\* file_size_mb = len(file.getvalue()) / (1024 * 1024); file_size_mb > MAX_FILE_SIZE_MB.
\* The division by a power of two is exact in floating point, so the test is
\* the integer comparison below.
ExceedsLimit(size) == size > MAX_FILE_SIZE_MB * (1024 * 1024)

\* a faulty loader that drops the bytes it cannot decode and reports nothing
load_file_content_lossy(f) ==
    IF ExceedsLimit(BytesLen(f)) THEN <<None, Some(SizeLimitError)>>
    ELSE <<Some(decode(f).text), None>>

\* returns (content, error_message)
load_file_content(f) ==
    IF ExceedsLimit(BytesLen(f)) THEN <<None, Some(SizeLimitError)>>
    ELSE LET d == decode(f)
         IN  IF d.ok THEN <<Some(d.text), None>> ELSE <<None, Some(DecodeError)>>

(***************************************************************************)
(* main(): the two comparison flows.  One run of the script is one action; *)
(* st.info, the logo and the style sheet have no effect on the comparison  *)
(* and are left out.                                                       *)
(***************************************************************************)
\* truth value of an Optional[str] error message: None and "" are false
Truthy(opt) == opt # None /\ Value(opt) # ""

Msg(kind, text) == [kind |-> kind, text |-> text]

\* the message texts; the warning sign that opens the upload warning is left out
UploadWarning == Msg("warning", <<"Please upload exactly two files for comparison.">>)
PasteWarning == Msg("warning", <<"Please enter text in both fields to compare.">>)
UploadSuccess == Msg("success", <<"Files loaded successfully!">>)

\* "if error1 or error2"
AnyError(e1, e2) == Truthy(e1) \/ Truthy(e2)

\* a faulty test that lets one empty field through
EitherText(t1, t2) == Len(t1) > 0 \/ Len(t2) > 0

\* "if text1 and text2"
BothTexts(t1, t2) == Len(t1) > 0 /\ Len(t2) > 0

\* two files were uploaded: l1 and l2 are (file1_data, error1) and
\* (file2_data, error2)
upload_two(l1, l2) ==
    IF AnyError(l1[2], l2[2])
    THEN [loaded1 |-> l1, loaded2 |-> l2,
          messages |->
              (IF Truthy(l1[2])
               THEN <<Msg("error", <<"Error in first file: ", Value(l1[2])>>)>>
               ELSE <<>>)
              \o (IF Truthy(l2[2])
                  THEN <<Msg("error", <<"Error in second file: ", Value(l2[2])>>)>>
                  ELSE <<>>),
          gen |-> None]
    ELSE [loaded1 |-> l1, loaded2 |-> l2,
          messages |-> <<UploadSuccess>>,
          gen |-> Some(generate_diff_html(Value(l1[1]), Value(l2[1])))]

\* the "Upload Files" branch: what the run loads, reports and renders.
\* gen is None when generate_diff_html is not called.
main_upload(files) ==
    IF Len(files) = 0
    THEN [loaded1 |-> <<None, None>>, loaded2 |-> <<None, None>>,
          messages |-> <<>>, gen |-> None]
    ELSE IF Len(files) = 2
    THEN upload_two(load_file_content(files[1]), load_file_content(files[2]))
    ELSE [loaded1 |-> <<None, None>>, loaded2 |-> <<None, None>>,
          messages |-> <<UploadWarning>>, gen |-> None]

\* the "Paste Text" branch
main_paste(t1, t2, button) ==
    IF ~button THEN [messages |-> <<>>, gen |-> None]
    ELSE IF BothTexts(t1, t2)
    THEN [messages |-> <<>>, gen |-> Some(generate_diff_html(t1, t2))]
    ELSE [messages |-> <<PasteWarning>>, gen |-> None]

(***************************************************************************)
(* The tool and what its calls leave in the state                          *)
(***************************************************************************)
\* FileComparisonTool.__init__
NewConfig ==
    [max_file_size_mb |-> MAX_FILE_SIZE_MB,
     supported_text_extensions |->
         {".c", ".h", ".cpp", ".txt", ".py", ".json", ".yaml", ".yml", ".md", ".css",
          ".html", ".js"},
     supported_binary_extensions |-> {".bin", ".hex"}]

\* what a call of generate_diff_html leaves in the state
Generated(g, d1, d2) ==
    /\ file1_data' = d1
    /\ file2_data' = d2
    /\ file1_lines' = g.file1_lines
    /\ file2_lines' = g.file2_lines
    /\ line_diff' = g.line_diff
    /\ line_num1' = g.line_num1
    /\ line_num2' = g.line_num2
    /\ html_content' = g.html_content

NotGenerated ==
    UNCHANGED <<file1_data, file2_data, file1_lines, file2_lines, line_diff,
                line_num1, line_num2, html_content>>

\* a new tool in a session in which nothing has run yet
Fresh ==
    /\ config = NewConfig
    /\ input_method = ""
    /\ uploaded_files = <<>>
    /\ text1 = <<>>
    /\ text2 = <<>>
    /\ clicked = FALSE
    /\ file = [data |-> <<>>, pad |-> 0]
    /\ file1_data = <<>>
    /\ file2_data = <<>>
    /\ loaded1 = <<None, None>>
    /\ loaded2 = <<None, None>>
    /\ file1_lines = <<>>
    /\ file2_lines = <<>>
    /\ line_diff = <<>>
    /\ line_num1 = 0
    /\ line_num2 = 0
    /\ html_content = <<>>
    /\ messages = <<>>
    /\ diff_html = None
    /\ calls = 0
    /\ fresh_html = <<>>
    /\ pc = "start"

(***************************************************************************)
(* Inputs                                                                  *)
(***************************************************************************)
\* the lines the compared texts are made of: an empty line, and two lines
\* similar enough (ratio 0.8) for ndiff to synch on them
LineVocab == {<<>>, <<"a", "b">>, <<"a", "b", "b">>}

RECURSIVE SeqsUpTo(_, _)
SeqsUpTo(S, n) ==
    IF n = 0 THEN {<<>>}
    ELSE LET R == SeqsUpTo(S, n - 1)
         IN  R \cup {Append(l, v) : l \in {x \in R : Len(x) = n - 1}, v \in S}

\* "\n".join(lines)
RECURSIVE JoinLines(_)
JoinLines(lines) ==
    IF lines = <<>> THEN <<>>
    ELSE IF Len(lines) = 1 THEN lines[1]
    ELSE lines[1] \o <<"\n">> \o JoinLines(Tail(lines))

Texts == {JoinLines(l) : l \in SeqsUpTo(LineVocab, MaxLines)}

\* bytes of uploaded files: "a", "\n" and the two bytes of U+00E9, each of
\* which alone is not valid UTF-8
FileBytes == {97, 10, 195, 169}

\* pad that makes a file of n explicit bytes exactly as large as the limit
PadToLimit(n) == MAX_FILE_SIZE_MB * (1024 * 1024) - n

\* files of up to n explicit bytes: unpadded ones, and ones padded to the
\* limit plus each of the offsets in over
FilesUpTo(n, over) ==
    {[data |-> d, pad |-> 0] : d \in SeqsUpTo(FileBytes, n)} \cup
    {[data |-> d, pad |-> PadToLimit(Len(d)) + e] : d \in SeqsUpTo(FileBytes, n), e \in over}

OverPad == {1}
EdgePads == {0, 1}

\* uploaded files: small ones, and oversize ones
UploadFiles == FilesUpTo(MaxFileLen, OverPad)

\* the uploader holds no file, one file, two files or three
Uploads ==
    {<<>>} \cup {<<f>> : f \in UploadFiles}
    \cup {<<f, g>> : f \in UploadFiles, g \in UploadFiles}
    \cup {<<f, f, f>> : f \in UploadFiles}

\* pasted texts: what the valid small files decode to
PasteTexts ==
    {utf8_decode(d, 0, <<>>).text :
        d \in {x \in SeqsUpTo(FileBytes, MaxFileLen) : utf8_decode(x, 0, <<>>).ok}}

\* files of a direct load_file_content call: small, exactly at the limit, and
\* one byte over it
LoadFiles == FilesUpTo(MaxLoadLen, EdgePads)

\* arguments of the calls made in sequence on one tool
CallTexts == {<<"a", "b", "b">>, <<"a", "b", "\n", "a", "b", "b">>}
CallFiles == {[data |-> <<97>>, pad |-> 0], [data |-> <<195>>, pad |-> 0]}

(***************************************************************************)
(* Operations                                                              *)
(***************************************************************************)
UiUnchanged == UNCHANGED <<input_method, uploaded_files, text1, text2, clicked>>

\* tool.generate_diff_html(d1, d2)
Returned(g, d1, d2) ==
    /\ Generated(g, d1, d2)
    /\ calls' = calls + 1
    /\ fresh_html' = IF calls = 0 /\ <<d1, d2>> \notin DOMAIN fresh_html
                     THEN fresh_html @@ (<<d1, d2>> :> g.html_content)
                     ELSE fresh_html
    /\ pc' = "done"
    /\ UiUnchanged
    /\ UNCHANGED <<config, file, loaded1, loaded2, messages, diff_html>>

GenerateDiffHtml(d1, d2) == Returned(generate_diff_html(d1, d2), d1, d2)

\* tool.load_file_content(f)
LoadFileContent(f) ==
    /\ file' = f
    /\ loaded1' = load_file_content(f)
    /\ calls' = calls + 1
    /\ pc' = "done"
    /\ UiUnchanged
    /\ NotGenerated
    /\ UNCHANGED <<config, loaded2, messages, diff_html, fresh_html>>

\* a run of main() with "Upload Files" selected
Uploaded(files, r) ==
    /\ input_method' = "Upload Files"
    /\ uploaded_files' = files
    /\ loaded1' = r.loaded1
    /\ loaded2' = r.loaded2
    /\ messages' = r.messages
    /\ IF r.gen # None
       THEN /\ Generated(Value(r.gen), Value(r.loaded1[1]), Value(r.loaded2[1]))
            /\ diff_html' = Some(Value(r.gen).html_content)
       ELSE /\ NotGenerated
            /\ diff_html' = None
    /\ pc' = "done"
    /\ UNCHANGED <<config, text1, text2, clicked, file, calls, fresh_html>>

MainUpload(files) == Uploaded(files, main_upload(files))

\* a run of main() with "Paste Text" selected
Pasted(t1, t2, button, r) ==
    /\ input_method' = "Paste Text"
    /\ text1' = t1
    /\ text2' = t2
    /\ clicked' = button
    /\ messages' = r.messages
    /\ IF r.gen # None
       THEN /\ Generated(Value(r.gen), t1, t2)
            /\ diff_html' = Some(Value(r.gen).html_content)
       ELSE /\ NotGenerated
            /\ diff_html' = None
    /\ pc' = "done"
    /\ UNCHANGED <<config, uploaded_files, file, loaded1, loaded2, calls, fresh_html>>

MainPaste(t1, t2, button) == Pasted(t1, t2, button, main_paste(t1, t2, button))

\* tool = FileComparisonTool(): the caller drops the tool and builds a new one
NewTool ==
    /\ config' = NewConfig
    /\ file' = [data |-> <<>>, pad |-> 0]
    /\ loaded1' = <<None, None>>
    /\ file1_data' = <<>>
    /\ file2_data' = <<>>
    /\ file1_lines' = <<>>
    /\ file2_lines' = <<>>
    /\ line_diff' = <<>>
    /\ line_num1' = 0
    /\ line_num2' = 0
    /\ html_content' = <<>>
    /\ calls' = 0
    /\ pc' = "start"
    /\ UiUnchanged
    /\ UNCHANGED <<loaded2, messages, diff_html, fresh_html>>

(***************************************************************************)
(* Specifications                                                          *)
(***************************************************************************)
Init == Fresh

\* Spec: one generate_diff_html call on a new tool, over all pairs of Texts
Next == pc = "start" /\ \E d1 \in Texts, d2 \in Texts : GenerateDiffHtml(d1, d2)

Spec == Init /\ [][Next]_vars

\* SpecLoad: one load_file_content call
NextLoad == pc = "start" /\ \E f \in LoadFiles : LoadFileContent(f)

SpecLoad == Init /\ [][NextLoad]_vars

\* SpecMain: one run of main(), which builds its own tool
UploadRun == pc = "start" /\ \E files \in Uploads : MainUpload(files)

PasteRun == pc = "start" /\ \E t1 \in PasteTexts, t2 \in PasteTexts, button \in BOOLEAN :
                                 MainPaste(t1, t2, button)

NextMain == UploadRun \/ PasteRun

SpecMain == Init /\ [][NextMain]_vars

\* SpecCalls: up to MaxCalls calls, one after the other, on the same tool,
\* which the caller may then replace by a new one
NextGenerate == calls < MaxCalls /\ \E d1 \in CallTexts, d2 \in CallTexts :
                                       GenerateDiffHtml(d1, d2)

NextLoadCall == calls < MaxCalls /\ \E f \in CallFiles : LoadFileContent(f)

NextNewTool == calls > 0 /\ NewTool

NextCalls == NextGenerate \/ NextLoadCall \/ NextNewTool

SpecCalls == Init /\ [][NextCalls]_vars

(***************************************************************************)
(* Properties.  Rows are the <tr> elements of the returned html, in order; *)
(* a side of a row is present when its line-number cell is filled.         *)
(***************************************************************************)
IsRow(e) == e.kind = "tr"
HasLeft(r) == r.num1 # <<>>
HasRight(r) == r.num2 # <<>>
IsUnchanged(r) == HasLeft(r) /\ HasRight(r) /\ r.text1 = r.text2

RowsOf(html) == SelectSeq(html, IsRow)
Rows == RowsOf(html_content)
LeftRows == SelectSeq(Rows, HasLeft)
RightRows == SelectSeq(Rows, HasRight)
UnchangedRows == SelectSeq(Rows, IsUnchanged)

\* "1", "2", ..., "n"
Numbers(n) == [i \in 1..n |-> str(i)]

\* the lines of the delta that are not "? " guide lines
IsEdit(l) == Slice(l, 0, 2) # <<"?", " ">>
Edits == SelectSeq(line_diff, IsEdit)

\* the size and encoding conditions, stated apart from load_file_content
TooLarge(f) == BytesLen(f) > 10 * 1024 * 1024
ValidUtf8(f) == utf8_decode(f.data, 0, <<>>).ok
Loads(f) == ~TooLarge(f) /\ ValidUtf8(f)

\* C1: after generate_diff_html, the left line numbers of the rows that have
\* a left side are exactly 1, 2, ..., len(A) in that order, the right line
\* numbers of the rows that have a right side are exactly 1, 2, ..., len(B)
\* in that order, and the counters end at len(A) + 1 and len(B) + 1.
C1_Partition ==
    pc = "done" =>
        /\ [i \in 1..Len(LeftRows) |-> LeftRows[i].num1] = Numbers(Len(file1_lines))
        /\ [i \in 1..Len(RightRows) |-> RightRows[i].num2] = Numbers(Len(file2_lines))
        /\ line_num1 = Len(file1_lines) + 1
        /\ line_num2 = Len(file2_lines) + 1

\* a three-line A against a two-line B whose rows are of all three kinds
C1_Witness ==
    /\ pc = "done"
    /\ Len(file1_lines) = 3
    /\ Len(file2_lines) = 2
    /\ \E i \in 1..Len(Rows) : HasLeft(Rows[i]) /\ HasRight(Rows[i])
    /\ \E i \in 1..Len(Rows) : HasLeft(Rows[i]) /\ ~HasRight(Rows[i])
    /\ \E i \in 1..Len(Rows) : ~HasLeft(Rows[i]) /\ HasRight(Rows[i])

\* C2: round trip: the left contents of the rows that have a left side are,
\* in row order, the line list A, and the right contents of the rows that
\* have a right side are the line list B.
C2_RoundTrip ==
    pc = "done" =>
        /\ [i \in 1..Len(LeftRows) |-> LeftRows[i].text1] = file1_lines
        /\ [i \in 1..Len(RightRows) |-> RightRows[i].text2] = file2_lines

\* different A and B, with an unchanged line and a "? " guide line in the delta
C2_Witness ==
    /\ pc = "done"
    /\ Len(file1_lines) = 3
    /\ file1_lines # file2_lines
    /\ UnchangedRows # <<>>
    /\ Len(Edits) < Len(line_diff)

\* C3: for every replaced range of the line alignment, the k-th line of the
\* A-range and the k-th line of the B-range are emitted as one row that
\* carries both line numbers.
C3_ReplacePairedRows ==
    pc = "done" =>
        \A n \in 1..Len(get_opcodes(file1_lines, file2_lines, NoJunk)) :
            LET op == get_opcodes(file1_lines, file2_lines, NoJunk)[n]
            IN  op.tag = "replace" =>
                    \A k \in 1..Min(op.i2 - op.i1, op.j2 - op.j1) :
                        \E i \in 1..Len(Rows) :
                            /\ Rows[i].num1 = str(op.i1 + k)
                            /\ Rows[i].num2 = str(op.j1 + k)

\* length of a longest common subsequence
RECURSIVE LCSLength(_, _)
LCSLength(a, b) ==
    IF a = <<>> \/ b = <<>> THEN 0
    ELSE IF Head(a) = Head(b) THEN 1 + LCSLength(Tail(a), Tail(b))
    ELSE IF LCSLength(Tail(a), b) >= LCSLength(a, Tail(b))
         THEN LCSLength(Tail(a), b)
         ELSE LCSLength(a, Tail(b))

\* C4: maximality: the number of unchanged rows is the length of a longest
\* common subsequence of A and B.
C4_Maximality ==
    pc = "done" => Len(UnchangedRows) = LCSLength(file1_lines, file2_lines)

\* C5: row shape per edit kind: the rows are, one for one and in order, the
\* lines of the delta; an unchanged line gives a row with both numbers and
\* the same untagged text on both sides, a removed line a row with only the
\* left side, an added line a row with only the right side.
RowShape(r, l) ==
    IF Slice(l, 0, 2) = <<" ", " ">>
    THEN /\ HasLeft(r) /\ HasRight(r)
         /\ r.class1 = "" /\ r.class2 = ""
         /\ r.text1 = Slice(l, 2, Len(l)) /\ r.text2 = Slice(l, 2, Len(l))
    ELSE IF Slice(l, 0, 2) = <<"-", " ">>
    THEN /\ HasLeft(r) /\ ~HasRight(r)
         /\ r.text1 = Slice(l, 2, Len(l)) /\ r.text2 = <<>>
    ELSE /\ Slice(l, 0, 2) = <<"+", " ">>
         /\ ~HasLeft(r) /\ HasRight(r)
         /\ r.text1 = <<>> /\ r.text2 = Slice(l, 2, Len(l))

C5_RowShape ==
    pc = "done" =>
        /\ Len(Rows) = Len(Edits)
        /\ \A i \in 1..Len(Rows) : RowShape(Rows[i], Edits[i])

\* rows of all three kinds, and a guide line that gives no row
C5_Witness ==
    /\ pc = "done"
    /\ Len(Edits) < Len(line_diff)
    /\ \E i \in 1..Len(Edits) : Slice(Edits[i], 0, 2) = <<" ", " ">>
    /\ \E i \in 1..Len(Edits) : Slice(Edits[i], 0, 2) = <<"-", " ">>
    /\ \E i \in 1..Len(Edits) : Slice(Edits[i], 0, 2) = <<"+", " ">>

\* a row with its sides exchanged: a removed line of one direction is an
\* added line of the other
SwapClass(c) == IF c = "removed" THEN "added" ELSE IF c = "added" THEN "removed" ELSE c
SwapRow(r) == Tr(r.num2, SwapClass(r.class2), r.text2, r.num1, SwapClass(r.class1), r.text1)

\* C6: left/right symmetry: the rows for (A, B) with the sides of every row
\* exchanged are, row for row, the rows for (B, A).
C6_Symmetry ==
    pc = "done" =>
        [i \in 1..Len(Rows) |-> SwapRow(Rows[i])]
            = RowsOf(generate_diff_html(file2_data, file1_data).html_content)

IsErrorFor(m, prefix) == m.kind = "error" /\ m.text[1] = prefix

\* C7: in the upload flow generate_diff_html is called, and rows exist, only
\* when exactly two files were uploaded and both loaded; when a file of the
\* two is too large or not UTF-8 an error is reported for each such file and
\* for no other, nothing is compared and no row is produced.
C7_UploadFailure ==
    (pc = "done" /\ input_method = "Upload Files") =>
        /\ diff_html # None =>
               /\ Len(uploaded_files) = 2
               /\ Loads(uploaded_files[1])
               /\ Loads(uploaded_files[2])
        /\ diff_html = None => (html_content = <<>> /\ line_diff = <<>>)
        /\ (Len(uploaded_files) = 2 /\ ~(Loads(uploaded_files[1]) /\ Loads(uploaded_files[2]))) =>
               /\ diff_html = None
               /\ Rows = <<>>
               /\ messages # <<>>
               /\ \A i \in 1..Len(messages) : messages[i].kind = "error"
               /\ ~Loads(uploaded_files[1]) <=>
                      \E i \in 1..Len(messages) : IsErrorFor(messages[i], "Error in first file: ")
               /\ ~Loads(uploaded_files[2]) <=>
                      \E i \in 1..Len(messages) : IsErrorFor(messages[i], "Error in second file: ")

\* two files, the first loads and has lines, the second is not UTF-8
C7_Witness ==
    /\ pc = "done"
    /\ input_method = "Upload Files"
    /\ Len(uploaded_files) = 2
    /\ Loads(uploaded_files[1])
    /\ uploaded_files[1].data # <<>>
    /\ ~TooLarge(uploaded_files[2])
    /\ ~ValidUtf8(uploaded_files[2])
    /\ Len(messages) = 1
    /\ diff_html = None

\* the empty-input cases of a comparison of the line lists A and B
EmptyCases(A, B, rows) ==
    /\ (A = <<>> /\ B = <<>>) => rows = <<>>
    /\ (A = <<>> /\ B # <<>>) =>
           /\ Len(rows) = Len(B)
           /\ \A i \in 1..Len(rows) : ~HasLeft(rows[i]) /\ HasRight(rows[i])
    /\ (A # <<>> /\ B = <<>>) =>
           /\ Len(rows) = Len(A)
           /\ \A i \in 1..Len(rows) : HasLeft(rows[i]) /\ ~HasRight(rows[i])

\* the user started a comparison: two loadable files were uploaded, or
\* Compare was clicked on the two pasted texts
UploadStarted ==
    /\ input_method = "Upload Files"
    /\ Len(uploaded_files) = 2
    /\ Loads(uploaded_files[1])
    /\ Loads(uploaded_files[2])
PasteStarted == input_method = "Paste Text" /\ clicked

\* C8 as stated: the empty-input cases hold for every way a user can start a
\* comparison, file upload and pasted text.
C8_EmptyInputsEveryFlow ==
    /\ (pc = "done" /\ UploadStarted) =>
           EmptyCases(splitlines(Value(loaded1[1])), splitlines(Value(loaded2[1])), Rows)
    /\ (pc = "done" /\ PasteStarted) =>
           EmptyCases(splitlines(text1), splitlines(text2), Rows)

\* C8, amended: the empty-input cases hold whenever generate_diff_html is
\* called, and the upload flow calls it for any two files that load, empty
\* ones included; the paste flow does not call it when a field is empty: it
\* shows a warning and no row.
C8_EmptyInputs ==
    pc = "done" =>
        /\ diff_html # None => EmptyCases(file1_lines, file2_lines, Rows)
        /\ UploadStarted =>
               /\ diff_html # None
               /\ file1_lines = splitlines(Value(loaded1[1]))
               /\ file2_lines = splitlines(Value(loaded2[1]))
        /\ (PasteStarted /\ (text1 = <<>> \/ text2 = <<>>)) =>
               /\ diff_html = None
               /\ Rows = <<>>
               /\ messages = <<PasteWarning>>
        /\ (PasteStarted /\ text1 # <<>> /\ text2 # <<>>) =>
               /\ diff_html # None
               /\ file1_lines = splitlines(text1)
               /\ file2_lines = splitlines(text2)

\* Compare clicked with an empty first field and a second field of two lines
C8_Witness ==
    /\ pc = "done"
    /\ PasteStarted
    /\ text1 = <<>>
    /\ Len(splitlines(text2)) = 2
    /\ messages = <<PasteWarning>>

C10_LoadResult ==
    pc = "done" =>
        /\ (loaded1[1] = None) # (loaded1[2] = None)
        /\ loaded1[2] = None <=> (BytesLen(file) <= 10 * 1024 * 1024 /\ ValidUtf8(file))
        /\ loaded1[2] = None => loaded1[1] = Some(decode(file).text)
        /\ BytesLen(file) > 10 * 1024 * 1024 => loaded1[2] = Some(SizeLimitError)
        /\ (BytesLen(file) <= 10 * 1024 * 1024 /\ ~ValidUtf8(file)) =>
               loaded1[2] = Some(DecodeError)
        /\ BytesLen(file) = 0 => loaded1 = <<Some(<<>>), None>>

\* a file of exactly 10 * 1024 * 1024 bytes that loaded
C10_Witness ==
    /\ pc = "done"
    /\ BytesLen(file) = 10 * 1024 * 1024
    /\ loaded1[1] # None
    /\ loaded1[2] = None

====
